---- MODULE Spec2Model ----
(***************************************************************************)
(* A model of textmap/vectorizers.py: the WordVectorizer, DocVectorizer    *)
(* and JointVectorizer estimators.  A vectorizer instance is a record of   *)
(* its constructor parameters and of the "_"-suffixed attributes that fit  *)
(* binds.  Stage delegates (tokenizers, contractors, vectorizers, weight   *)
(* transformers) are objects on a heap, referred to by reference, so that  *)
(* two instances holding the same delegate is something the model can see. *)
(*                                                                         *)
(* Text is modelled as sequences of naturals: 0 is the sentence separator  *)
(* of a raw document, 1 and 2 are words, 100+10a+b is the token the        *)
(* contractor merges the adjacent pair (a, b) into.                        *)
(***************************************************************************)
EXTENDS Naturals, Sequences, FiniteSets, TLC

VARIABLES inst, heap, last

vars == <<inst, heap, last>>

\* ------------------------------------------------------------------ bounds

\* The longest corpus handed to fit or transform.
MaxCorpus == 2

\* The longest corpus of new documents handed to transform.
MaxNew == 1

\* The longest list of words handed to lookup_words.
MaxWords == 2

\* The small value max_entries takes, beside the default.
MaxEntries == 2

\* The default of to_DataFrame's max_entries parameter.
DefaultMaxEntries == 10000

\* ------------------------------------------------------------------ helpers

RECURSIVE SeqsUpTo(_, _)
\* All sequences over S of length at most n.
SeqsUpTo(S, n) ==
  IF n = 0 THEN {<<>>}
  ELSE LET shorter == SeqsUpTo(S, n - 1)
       IN  shorter \cup {Append(s, x) : s \in {t \in shorter : Len(t) = n - 1}, x \in S}

RECURSIVE SumSeq(_)
SumSeq(s) == IF s = <<>> THEN 0 ELSE Head(s) + SumSeq(Tail(s))

RECURSIVE Flatten(_)
\* The concatenation of a sequence of sequences.
Flatten(ss) == IF ss = <<>> THEN <<>> ELSE Head(ss) \o Flatten(Tail(ss))

Range(s) == {s[k] : k \in 1..Len(s)}

Min(S) == CHOOSE x \in S : \A y \in S : x <= y

RECURSIVE Sorted(_)
\* Python's sorted(S) for a set of naturals.
Sorted(S) == IF S = {} THEN <<>> ELSE <<Min(S)>> \o Sorted(S \ {Min(S)})

\* The 1-based position of x in the sequence s (x occurs in s).
IndexOf(s, x) == CHOOSE k \in 1..Len(s) : s[k] = x

RECURSIVE Filter(_, _)
\* [w for w in s if w in S]
Filter(s, S) ==
  IF s = <<>> THEN <<>>
  ELSE (IF Head(s) \in S THEN <<Head(s)>> ELSE <<>>) \o Filter(Tail(s), S)

RECURSIVE RemoveRepeats(_)
\* s with every repeat of an earlier element removed (first occurrences kept).
RemoveRepeats(s) ==
  IF s = <<>> THEN <<>>
  ELSE LET front == RemoveRepeats(SubSeq(s, 1, Len(s) - 1))
           x == s[Len(s)]
       IN  IF x \in Range(front) THEN front ELSE Append(front, x)

\* The orders in which Python may iterate set(s): every arrangement of the
\* distinct elements of s.
SetOrders(s) ==
  LET S == Range(s)
  IN  {p \in SeqsUpTo(S, Cardinality(S)) : Len(p) = Cardinality(S) /\ Range(p) = S}

\* ------------------------------------------------------------------ data

\* The raw documents a caller hands in: "1 2" and "1 2. 2".
Docs == {<<1, 2>>, <<1, 2, 0, 2>>}

\* The corpora handed to fit and transform: at least one document (what the
\* delegates do with an empty corpus is theirs to say).
Corpora == SeqsUpTo(Docs, MaxCorpus) \ {<<>>}

\* The corpora of new documents handed to transform.
NewCorpora == SeqsUpTo(Docs, MaxNew) \ {<<>>}

\* The row selections asked of DocVectorizer.to_DataFrame: no row, the first
\* row, and row MaxCorpus, which is past the end.
RowLists == {<<>>, <<0>>, <<MaxCorpus>>}

\* The values max_entries takes.
Budgets == {MaxEntries, DefaultMaxEntries}

\* What flows through a pipeline: a corpus (a sequence of token sequences) or a
\* matrix (count rows, column labels, and the transforms applied since, in order).
Corpus(docs) == [kind |-> "corpus", docs |-> docs, rows |-> <<>>, cols |-> <<>>, ops |-> <<>>]

Matrix(rows, cols, ops) == [kind |-> "matrix", docs |-> <<>>, rows |-> rows, cols |-> cols, ops |-> ops]

NoData == [kind |-> "none", docs |-> <<>>, rows |-> <<>>, cols |-> <<>>, ops |-> <<>>]

\* What a transformer learns of the matrix it is fitted on.
Digest(m) == [rows |-> m.rows, ops |-> m.ops]

NoDigest == [rows |-> <<>>, ops |-> <<>>]

\* m after the transform named op, with the fitted model it was applied with.
Applied(m, op, model) == [m EXCEPT !.ops = Append(@, [op |-> op, model |-> model])]

\* ------------------------------------------------------------------ delegates

\* A delegate object on the heap: its class, how a tokenizer splits (kwds
\* tokenize_by), whether bool(obj) is true, and what fit left on it (<<>> before).
Obj(cls, by, truthy) == [cls |-> cls, by |-> by, truthy |-> truthy, fitted |-> <<>>]

NoObj == Obj("none", "", TRUE)

Fitted(obj, state) == [obj EXCEPT !.fitted = <<state>>]

\* What a delegate call gives back: the object after the call, the value
\* returned, and the exception raised ("" when it returns).
Returned(obj, out) == [obj |-> obj, out |-> out, exc |-> ""]

Raised(obj, exc) == [obj |-> obj, out |-> NoData, exc |-> exc]

RECURSIVE SplitSentences(_, _)
\* The sentences of a raw document: split at the separator 0, empty ones dropped.
\* cur is the sentence being read.
SplitSentences(doc, cur) ==
  IF doc = <<>> THEN (IF cur = <<>> THEN <<>> ELSE <<cur>>)
  ELSE IF Head(doc) = 0
       THEN (IF cur = <<>> THEN <<>> ELSE <<cur>>) \o SplitSentences(Tail(doc), <<>>)
       ELSE SplitSentences(Tail(doc), Append(cur, Head(doc)))

\* A document's tokens: the separators are punctuation and dropped.
SplitTokens(doc) == Filter(doc, Range(doc) \ {0})

\* A tokenizer's output: one token sequence per sentence of the whole corpus
\* (tokenize_by = "sentence") or one per document.
Tokenize(by, docs) ==
  IF by = "sentence"
  THEN Flatten([k \in 1..Len(docs) |-> SplitSentences(docs[k], <<>>)])
  ELSE [k \in 1..Len(docs) |-> SplitTokens(docs[k])]

\* An adjacent pair is contracted when it occurs at least this often in the
\* corpus the contractor is fitted on.
ContractMinCount == 2

\* The token the adjacent pair (a, b) contracts into.
Merge(a, b) == 100 + 10 * a + b

\* How often the tokens a, b occur next to each other in the corpus.
PairCount(docs, a, b) ==
  SumSeq([k \in 1..Len(docs) |->
            Cardinality({i \in 1..(Len(docs[k]) - 1) : docs[k][i] = a /\ docs[k][i + 1] = b})])

TokensOf(docs) == UNION {Range(docs[k]) : k \in 1..Len(docs)}

\* The pairs a contractor fitted on docs contracts.
FrequentPairs(docs) ==
  {p \in TokensOf(docs) \X TokensOf(docs) : PairCount(docs, p[1], p[2]) >= ContractMinCount}

RECURSIVE ContractDoc(_, _)
\* One pass over a token sequence, left to right, merging the learned pairs.
ContractDoc(doc, pairs) ==
  IF Len(doc) < 2 THEN doc
  ELSE IF <<doc[1], doc[2]>> \in pairs
       THEN <<Merge(doc[1], doc[2])>> \o ContractDoc(SubSeq(doc, 3, Len(doc)), pairs)
       ELSE <<doc[1]>> \o ContractDoc(Tail(doc), pairs)

\* The words looked up: a word of the documents, and one in no vocabulary.
WordPool == {2, 9}

WordLists == SeqsUpTo(WordPool, MaxWords)

\* The words asked of WordVectorizer.to_DataFrame.
WordSelections == {<<>>} \cup {<<w>> : w \in WordPool}

Contract(docs, pairs) == [k \in 1..Len(docs) |-> ContractDoc(docs[k], pairs)]

\* How often token t occurs in doc.
Count(doc, t) == Cardinality({i \in 1..Len(doc) : doc[i] = t})

\* A document vectorizer's count matrix of docs over the vocabulary vocab (a
\* sorted sequence of tokens): one row per document, one column per token.
NgramCounts(docs, vocab) ==
  Matrix([d \in 1..Len(docs) |-> [j \in 1..Len(vocab) |-> Count(docs[d], vocab[j])]],
         vocab, <<>>)

\* How often b directly follows a in the sentences.
After(sents, a, b) == PairCount(sents, a, b)

\* A word vectorizer's matrix: one row per word of the vocabulary, its columns
\* the counts of each word directly before it ("pre") then directly after it ("post").
Cooccurrences(sents, vocab) ==
  Matrix([i \in 1..Len(vocab) |->
            [j \in 1..Len(vocab) |-> After(sents, vocab[j], vocab[i])]
            \o [j \in 1..Len(vocab) |-> After(sents, vocab[i], vocab[j])]],
         [j \in 1..Len(vocab) |-> <<"pre", vocab[j]>>]
         \o [j \in 1..Len(vocab) |-> <<"post", vocab[j]>>],
         <<>>)

\* The dictionaries a fitted vectorizer exposes: token -> index (from 0) and back.
Dictionary(vocab) == [t \in Range(vocab) |-> IndexOf(vocab, t) - 1]

InverseDictionary(labels) == [k \in 0..(Len(labels) - 1) |-> labels[k + 1]]

\* sklearn.preprocessing.normalize(m, norm="l1", axis=1)
normalize(m) == Applied(m, "l1", NoDigest)

\* obj.fit_transform(x)
FitTransform(obj, x) ==
  CASE obj.cls = "tokenizer" ->
         LET out == Corpus(Tokenize(obj.by, x.docs))
         IN  Returned(Fitted(obj, out.docs), out)
    [] obj.cls = "contractor" ->
         LET pairs == FrequentPairs(x.docs)
         IN  Returned(Fitted(obj, pairs), Corpus(Contract(x.docs, pairs)))
    [] obj.cls = "docvec" ->
         LET vocab == Sorted(TokensOf(x.docs))
         IN  Returned(Fitted(obj, vocab), NgramCounts(x.docs, vocab))
    [] obj.cls = "wordvec" ->
         LET vocab == Sorted(TokensOf(x.docs))
         IN  Returned(Fitted(obj, vocab), Cooccurrences(x.docs, vocab))
    [] obj.cls = "iwt" ->
         Returned(Fitted(obj, Digest(x)), Applied(x, "info_weight", Digest(x)))
    [] obj.cls = "ret" ->
         Returned(Fitted(obj, Digest(x)), Applied(x, "remove_effects", Digest(x)))

\* obj.transform(x): the fitted state is used and left alone.
Transform(obj, x) ==
  IF obj.fitted = <<>> THEN Raised(obj, "NotFittedError")
  ELSE CASE obj.cls = "tokenizer" -> Returned(obj, Corpus(Tokenize(obj.by, x.docs)))
         [] obj.cls = "contractor" -> Returned(obj, Corpus(Contract(x.docs, obj.fitted[1])))
         [] obj.cls = "docvec" -> Returned(obj, NgramCounts(x.docs, obj.fitted[1]))
         [] obj.cls = "wordvec" -> Returned(obj, Cooccurrences(x.docs, obj.fitted[1]))
         [] obj.cls = "iwt" -> Returned(obj, Applied(x, "info_weight", obj.fitted[1]))
         [] obj.cls = "ret" -> Returned(obj, Applied(x, "remove_effects", obj.fitted[1]))

\* ------------------------------------------------------------------ stage factory

\* A stage selector, as a constructor parameter holds it: None, a registry
\* name, or a delegate object built by the caller.
SelNone == [kind |-> "none", name |-> "", ref |-> <<>>]

SelName(n) == [kind |-> "name", name |-> n, ref |-> <<>>]

SelObj(r) == [kind |-> "obj", name |-> "", ref |-> r]

\* A resolved stage, as a "_"-suffixed attribute holds it: None or a reference.
StageNone == [isNone |-> TRUE, ref |-> <<>>]

StageObj(r) == [isNone |-> FALSE, ref |-> r]

\* The registries: name -> the object the registered class and kwds construct.
SENTENCE_TOKENIZERS ==
  [n \in {"nltk", "tweet", "spacy", "stanza", "sklearn"} |-> Obj("tokenizer", "sentence", TRUE)]

DOCUMENT_TOKENIZERS ==
  [n \in {"nltk", "tweet", "spacy", "stanza", "sklearn"} |-> Obj("tokenizer", "document", TRUE)]

CONTRACTORS == [n \in {"aggressive", "conservative"} |-> Obj("contractor", "", TRUE)]

DOCUMENT_VECTORIZERS == [n \in {"bow", "bigram"} |-> Obj("docvec", "", TRUE)]

MULTITOKEN_COOCCURRENCE_VECTORIZERS == [n \in {"flat", "flat_1_5"} |-> Obj("wordvec", "", TRUE)]

INFO_WEIGHT_TRANSFORERS == [n \in {"default"} |-> Obj("iwt", "", TRUE)]

REMOVE_EFFECT_TRANSFORMERS == [n \in {"default"} |-> Obj("ret", "", TRUE)]

\* create_processing_pipeline_stage(selector, registry, kwds, label), called
\* for the stage that the instance keeps at the reference own when it builds one.
\* Gives the resolved stage, whether an object was built (and which), or the
\* exception raised.
create_processing_pipeline_stage(selector, registry, own) ==
  CASE selector.kind = "none" ->
         [exc |-> "", stage |-> StageNone, built |-> FALSE, obj |-> NoObj]
    [] selector.kind = "name" ->
         IF selector.name \in DOMAIN registry
         THEN [exc |-> "", stage |-> StageObj(own), built |-> TRUE, obj |-> registry[selector.name]]
         ELSE [exc |-> "ConfigurationError", stage |-> StageNone, built |-> FALSE, obj |-> NoObj]
    [] selector.kind = "obj" ->
         [exc |-> "", stage |-> StageObj(selector.ref), built |-> FALSE, obj |-> NoObj]

\* ------------------------------------------------------------------ instances

Insts == {"v1", "v2"}

Slots == {"tokenizer", "token_contractor", "vectorizer",
          "info_weight_transformer", "remove_effects_transformer"}

\* The attribute fit binds the resolved stage of a slot to.
AttrOf ==
  [tokenizer |-> "tokenizer_", token_contractor |-> "token_contractor_",
   vectorizer |-> "vectorizer_", info_weight_transformer |-> "info_weight_transformer_",
   remove_effects_transformer |-> "remove_effects_transformer_"]

\* Who owns an object: the instance whose fit built it, the caller ("user": a
\* delegate built by the caller; "falsy": one whose bool() is False), or the
\* module ("default": the default argument values of JointVectorizer.__init__).
Owners == Insts \cup {"user", "falsy", "default"}

Refs == Owners \X Slots

\* The attributes a user can read off an instance; <<>> is "no such attribute".
NoAttrs ==
  [tokenizer_ |-> <<>>, token_contractor_ |-> <<>>, vectorizer_ |-> <<>>,
   info_weight_transformer_ |-> <<>>, remove_effects_transformer_ |-> <<>>,
   representation_ |-> <<>>, token_dictonary_ |-> <<>>, inverse_token_dictionary_ |-> <<>>,
   column_dictionary_ |-> <<>>, inverse_column_dictionary_ |-> <<>>, vocabulary_ |-> <<>>]

\* An instance right after __init__: the parameters stored, no attribute bound.
New(cls, tok, con, vec, iwt, ret, norm, dedupe) ==
  [cls |-> cls, tokenizer |-> tok, token_contractor |-> con, vectorizer |-> vec,
   info_weight_transformer |-> iwt, remove_effects_transformer |-> ret,
   normalize |-> norm, dedupe |-> dedupe, attrs |-> NoAttrs]

Absent == New("none", SelNone, SelNone, SelNone, SelNone, SelNone, FALSE, FALSE)

WordVectorizer_init(tok, con, vec, norm, dedupe) ==
  New("Word", tok, con, vec, SelNone, SelNone, norm, dedupe)

DocVectorizer_init(tok, con, vec, iwt, ret, norm) ==
  New("Doc", tok, con, vec, iwt, ret, norm, FALSE)

\* JointVectorizer.__init__ stores tokenizer, ngram_vectorizer and the two
\* transformers; token_contractor is accepted and not stored.
JointVectorizer_init(tok, con, vec, iwt, ret, dedupe) ==
  New("Joint", tok, SelNone, vec, iwt, ret, FALSE, dedupe)

\* The value of a JointVectorizer.__init__ parameter left at its default: the
\* object the def statement built once.
JointDefault(slot) == SelObj(<<"default", slot>>)

\* ------------------------------------------------------------------ running a method

\* A method in progress: the instance and heap so far, the local variable the
\* pipeline threads, the delegate calls made, the exception raised ("" if none).
Frame(me, h, x) == [self |-> me, heap |-> h, data |-> x, trace |-> <<>>, exc |-> ""]

Called(stage, method, ref, in, out) ==
  [stage |-> stage, method |-> method, ref |-> ref, input |-> in, output |-> out]

\* self.<attr>_ = create_processing_pipeline_stage(self.<slot>, registry, ...)
resolve(f, i, slot, registry) ==
  IF f.exc # "" THEN f
  ELSE LET r == create_processing_pipeline_stage(f.self[slot], registry, <<i, slot>>)
       IN  IF r.exc # "" THEN [f EXCEPT !.exc = r.exc]
           ELSE [f EXCEPT !.self.attrs[AttrOf[slot]] = <<r.stage>>,
                          !.heap = IF r.built THEN [@ EXCEPT ![<<i, slot>>] = r.obj] ELSE @]

\* `self.<attr>_ is not None`, evaluated while the method still runs.
is_not_None(f, slot) ==
  /\ f.exc = ""
  /\ f.self.attrs[AttrOf[slot]] # <<>>
  /\ ~f.self.attrs[AttrOf[slot]][1].isNone

\* `if self.<attr>_:`, Python's truth test: None is false, an object is what
\* its bool() says.
truth(f, slot) ==
  /\ is_not_None(f, slot)
  /\ f.heap[f.self.attrs[AttrOf[slot]][1].ref].truthy

\* The frame after the delegate at ref, called on f.data, gave back r.
called(f, ref, method, label, r) ==
  [f EXCEPT !.heap[ref] = r.obj,
            !.exc = r.exc,
            !.data = IF r.exc = "" THEN r.out ELSE @,
            !.trace = Append(@, Called(label, method, ref, f.data, r.out))]

\* self.<attr>_.<method>(data): the local variable becomes what the delegate
\* returns.  An unbound attribute, or one bound to None, raises AttributeError.
call(f, slot, method, label) ==
  IF f.exc # "" THEN f
  ELSE IF f.self.attrs[AttrOf[slot]] = <<>> \/ f.self.attrs[AttrOf[slot]][1].isNone
       THEN [f EXCEPT !.exc = "AttributeError"]
       ELSE called(f, f.self.attrs[AttrOf[slot]][1].ref, method, label,
                   IF method = "fit_transform"
                   THEN FitTransform(f.heap[f.self.attrs[AttrOf[slot]][1].ref], f.data)
                   ELSE Transform(f.heap[f.self.attrs[AttrOf[slot]][1].ref], f.data))

\* data = normalize(data, norm="l1", axis=1)
l1(f, label) ==
  IF f.exc # "" THEN f
  ELSE [f EXCEPT !.data = normalize(@),
                 !.trace = Append(@, Called(label, "normalize", <<>>, f.data, normalize(f.data)))]

\* self.representation_ = data
keep(f) == IF f.exc # "" THEN f ELSE [f EXCEPT !.self.attrs.representation_ = <<f.data>>]

\* The delegate called with the None test left out.
call_unguarded(f, slot, method, label) == call(f, slot, method, label)

\* if self.<attr>_ is not None: data = self.<attr>_.<method>(data)
call_if_not_None(f, slot, method, label) ==
  IF is_not_None(f, slot) THEN call(f, slot, method, label) ELSE f

\* ------------------------------------------------------------------ WordVectorizer

\* The column labels of a word vectorizer fitted with the vocabulary vocab.
WordColumns(vocab) ==
  [j \in 1..Len(vocab) |-> <<"pre", vocab[j]>>] \o [j \in 1..Len(vocab) |-> <<"post", vocab[j]>>]

\* The TOKENIZATION block of WordVectorizer.fit.
word_tokenize(f, i) ==
  call_if_not_None(resolve(f, i, "tokenizer", SENTENCE_TOKENIZERS),
                   "tokenizer", "fit_transform", "tokenize")

\* The TOKEN CONTRACTOR block of WordVectorizer.fit.
word_contract(f, i) ==
  call_if_not_None(resolve(f, i, "token_contractor", CONTRACTORS),
                   "token_contractor", "fit_transform", "contract")

\* WordVectorizer.fit up to the contracted token sequences.
WordVectorizer_tokens(i, me, h, X) == word_contract(word_tokenize(Frame(me, h, Corpus(X)), i), i)

\* The orders tuple(set(tokens_by_sentence)) may come out in, when fit gets there.
orders(f) == IF f.exc = "" /\ f.self.dedupe THEN SetOrders(f.data.docs) ELSE {<<>>}

DedupeOrders(i, me, h, X) == orders(WordVectorizer_tokens(i, me, h, X))

\* The DEDUPE block: tokens_by_sentence = tuple(set(tokens_by_sentence)), which
\* comes out as order.
dedupe(f, order) ==
  IF f.exc # "" \/ ~f.self.dedupe THEN f
  ELSE [f EXCEPT !.data = Corpus(order),
                 !.trace = Append(@, Called("dedupe", "set", <<>>, f.data, Corpus(order)))]

\* The VECTORIZE block of WordVectorizer.fit.
word_vectorize(f, i) ==
  keep(call(resolve(f, i, "vectorizer", MULTITOKEN_COOCCURRENCE_VECTORIZERS),
            "vectorizer", "fit_transform", "vectorize"))

\* The NORMALIZE block with the switch ignored.
final_normalize_always(f) == keep(l1(f, "normalize"))

\* The NORMALIZE block of fit.
final_normalize(f) == IF f.self.normalize THEN keep(l1(f, "normalize")) ELSE f

\* The promotion with token_dictonary_ numbering the vocabulary from its end.
promoted_word_reversed(f, vocab) ==
  [f EXCEPT !.self.attrs.token_dictonary_ =
              <<[t \in Range(vocab) |-> Len(vocab) - IndexOf(vocab, t)]>>,
            !.self.attrs.inverse_token_dictionary_ = <<InverseDictionary(vocab)>>,
            !.self.attrs.column_dictionary_ = <<InverseDictionary(WordColumns(vocab))>>,
            !.self.attrs.inverse_column_dictionary_ = <<Dictionary(WordColumns(vocab))>>,
            !.self.attrs.vocabulary_ = <<vocab>>]

\* The attributes of WordVectorizer promoted from a vectorizer_ fitted with vocab.
promoted_word(f, vocab) ==
  [f EXCEPT !.self.attrs.token_dictonary_ = <<Dictionary(vocab)>>,
            !.self.attrs.inverse_token_dictionary_ = <<InverseDictionary(vocab)>>,
            !.self.attrs.column_dictionary_ = <<InverseDictionary(WordColumns(vocab))>>,
            !.self.attrs.inverse_column_dictionary_ = <<Dictionary(WordColumns(vocab))>>,
            !.self.attrs.vocabulary_ = <<vocab>>]

\* The token and column dictionaries promoted from the fitted vectorizer_.
promote_word(f) ==
  IF f.exc # "" THEN f
  ELSE promoted_word(f, f.heap[f.self.attrs.vectorizer_[1].ref].fitted[1])

\* WordVectorizer.fit(X): the frame it ends in.
WordVectorizer_fit(i, me, h, X, order) ==
  promote_word(final_normalize(word_vectorize(dedupe(WordVectorizer_tokens(i, me, h, X), order), i)))

\* ------------------------------------------------------------------ DocVectorizer

\* The attributes of DocVectorizer promoted from a vectorizer_ fitted with vocab.
promoted_doc(f, vocab) ==
  [f EXCEPT !.self.attrs.column_dictionary_ = <<InverseDictionary(vocab)>>,
            !.self.attrs.inverse_column_dictionary_ = <<Dictionary(vocab)>>,
            !.self.attrs.vocabulary_ = <<vocab>>]

\* The n-gram dictionaries promoted from the fitted vectorizer_.
promote_doc(f) ==
  IF f.exc # "" THEN f
  ELSE promoted_doc(f, f.heap[f.self.attrs.vectorizer_[1].ref].fitted[1])

\* The TOKENIZATION block of DocVectorizer.fit.
doc_tokenize(f, i) ==
  call_if_not_None(resolve(f, i, "tokenizer", DOCUMENT_TOKENIZERS),
                   "tokenizer", "fit_transform", "tokenize")

\* The TOKEN CONTRACTOR block of DocVectorizer.fit.
doc_contract(f, i) ==
  call_if_not_None(resolve(f, i, "token_contractor", CONTRACTORS),
                   "token_contractor", "fit_transform", "contract")

\* The VECTORIZE block of DocVectorizer.fit.
doc_vectorize(f, i) ==
  keep(call(resolve(f, i, "vectorizer", DOCUMENT_VECTORIZERS),
            "vectorizer", "fit_transform", "vectorize"))

\* if self.info_weight_transformer_: representation_ = it.fit_transform(representation_)
info_weight_if_true(f) ==
  IF truth(f, "info_weight_transformer")
  THEN keep(call(f, "info_weight_transformer", "fit_transform", "info_weight"))
  ELSE f

\* The INFO WEIGHT TRANSFORMER block of DocVectorizer.fit.
doc_info_weight(f, i) ==
  info_weight_if_true(resolve(f, i, "info_weight_transformer", INFO_WEIGHT_TRANSFORERS))

\* if self.remove_effects_transformer_: normalize, then fit_transform
remove_effects_if_true(f) ==
  IF truth(f, "remove_effects_transformer")
  THEN keep(call(keep(l1(f, "pre_normalize")),
                 "remove_effects_transformer", "fit_transform", "remove_effects"))
  ELSE f

\* The REMOVE EFFECTS TRANSFORMER block of DocVectorizer.fit.
doc_remove_effects(f, i) ==
  remove_effects_if_true(resolve(f, i, "remove_effects_transformer", REMOVE_EFFECT_TRANSFORMERS))

\* DocVectorizer.fit with the two transformer blocks in the other order.
DocVectorizer_fit_swapped(i, me, h, X) ==
  promote_doc(final_normalize(doc_info_weight(doc_remove_effects(doc_vectorize(
    doc_contract(doc_tokenize(Frame(me, h, Corpus(X)), i), i), i), i), i)))

\* DocVectorizer.fit(X): the frame it ends in.
DocVectorizer_fit(i, me, h, X) ==
  promote_doc(final_normalize(doc_remove_effects(doc_info_weight(doc_vectorize(
    doc_contract(doc_tokenize(Frame(me, h, Corpus(X)), i), i), i), i), i)))

\* transform with the fitted check left out.
check_is_fitted_omitted(f, attr) == f

\* check_is_fitted(self, ["tokenizer_"])
check_is_fitted(f, attr) ==
  IF f.exc = "" /\ f.self.attrs[attr] = <<>> THEN [f EXCEPT !.exc = "NotFittedError"] ELSE f

\* Reading self.<attr>_: AttributeError when fit has not bound it.
read(f, slot) ==
  IF f.exc = "" /\ f.self.attrs[AttrOf[slot]] = <<>> THEN [f EXCEPT !.exc = "AttributeError"] ELSE f

\* The remove-effects step of transform with no normalization before it.
remove_effects_unnormalized(f) ==
  IF is_not_None(f, "remove_effects_transformer")
  THEN call(f, "remove_effects_transformer", "transform", "remove_effects")
  ELSE f

\* if self.remove_effects_transformer_ is not None: normalize, then transform
remove_effects_if_not_None(f) ==
  IF is_not_None(f, "remove_effects_transformer")
  THEN call(l1(f, "pre_normalize"), "remove_effects_transformer", "transform", "remove_effects")
  ELSE f

\* if self.normalize: representation = normalize(representation)
normalize_if_set(f) == IF f.self.normalize THEN l1(f, "normalize") ELSE f

\* transform entering the vectorizer through fit_transform, as it does the tokenizer.
DocVectorizer_transform_refitting(me, h, X) ==
  normalize_if_set(
    remove_effects_if_not_None(read(
      call_if_not_None(read(
        call(
          call_if_not_None(read(
            call(check_is_fitted(Frame(me, h, Corpus(X)), "tokenizer_"),
                 "tokenizer", "fit_transform", "tokenize"),
            "token_contractor"), "token_contractor", "transform", "contract"),
          "vectorizer", "fit_transform", "vectorize"),
        "info_weight_transformer"), "info_weight_transformer", "transform", "info_weight"),
      "remove_effects_transformer")))

\* DocVectorizer.transform(X): the frame it ends in; its data is the value returned.
DocVectorizer_transform(me, h, X) ==
  normalize_if_set(
    remove_effects_if_not_None(read(
      call_if_not_None(read(
        call(
          call_if_not_None(read(
            call(check_is_fitted(Frame(me, h, Corpus(X)), "tokenizer_"),
                 "tokenizer", "fit_transform", "tokenize"),
            "token_contractor"), "token_contractor", "transform", "contract"),
          "vectorizer", "transform", "vectorize"),
        "info_weight_transformer"), "info_weight_transformer", "transform", "info_weight"),
      "remove_effects_transformer")))

\* ------------------------------------------------------------------ lookup and export

\* What a method hands back to its caller.
Value(kind, words, data, index, columns) ==
  [kind |-> kind, words |-> words, data |-> data, index |-> index, columns |-> columns]

NoValue == Value("none", <<>>, NoData, <<>>, <<>>)

Return(v) == [exc |-> "", value |-> v]

Raise(e) == [exc |-> e, value |-> NoValue]

\* matrix[indices, :] for indices counted from 0.
RowsAt(m, indices) ==
  Matrix([k \in 1..Len(indices) |-> m.rows[indices[k] + 1]], m.cols, m.ops)

\* self.representation_[indices, :], with the words the rows are of.
lookup_indices(a, vocabulary_present, indices) ==
  IF \E k \in 1..Len(indices) : indices[k] >= Len(a.representation_[1].rows)
  THEN Raise("IndexError")
  ELSE Return(Value("lookup", vocabulary_present,
                    RowsAt(a.representation_[1], indices), <<>>, <<>>))

\* lookup_words once the words in the vocabulary are picked.
lookup_present(a, vocabulary_present) ==
  IF vocabulary_present # <<>> /\ a.token_dictonary_ = <<>> THEN Raise("AttributeError")
  ELSE IF \E w \in Range(vocabulary_present) : w \notin DOMAIN a.token_dictonary_[1]
       THEN Raise("KeyError")
  ELSE IF a.representation_ = <<>> THEN Raise("AttributeError")
  ELSE lookup_indices(a, vocabulary_present,
                      [k \in 1..Len(vocabulary_present) |->
                         a.token_dictonary_[1][vocabulary_present[k]]])

\* The filter keeping one copy of each word.
present_once(words, vocabulary) == RemoveRepeats(Filter(words, Range(vocabulary)))

\* vocabulary_present = [w for w in words if w in self.vocabulary_]
present(words, vocabulary) == Filter(words, Range(vocabulary))

\* WordVectorizer.lookup_words(words)
lookup_words(me, words) ==
  IF words = <<>> THEN lookup_present(me.attrs, <<>>)
  ELSE IF me.attrs.vocabulary_ = <<>> THEN Raise("AttributeError")
  ELSE lookup_present(me.attrs, present(words, me.attrs.vocabulary_[1]))

\* The ValueError object the capacity guard builds, and hands over as a result.
CapacityError == Value("ValueError", <<>>, NoData, <<>>, <<>>)

\* How the capacity guard leaves the method once matrix_size > max_entries.
over_capacity == Return(CapacityError)

\* [dictionary[x] for x in range(n)]
Labels(dictionary, n) == [k \in 1..n |-> dictionary[k - 1]]

\* WordVectorizer.to_DataFrame from the lookup on: the guard, then the table.
word_frame(a, max_entries, found) ==
  IF found.exc # "" THEN Raise(found.exc)
  ELSE IF Len(found.value.data.rows) * Len(found.value.data.cols) > max_entries
       THEN over_capacity
  ELSE IF a.column_dictionary_ = <<>> THEN Raise("AttributeError")
  ELSE Return(Value("DataFrame", <<>>, found.value.data, found.value.words,
                    Labels(a.column_dictionary_[1], Cardinality(DOMAIN a.column_dictionary_[1]))))

\* WordVectorizer.to_DataFrame(max_entries, words); words is <<>> for None and
\* <<list>> for a list.
WordVectorizer_to_DataFrame(me, max_entries, words) ==
  IF words = <<>> /\ me.attrs.vocabulary_ = <<>> THEN Raise("AttributeError")
  ELSE word_frame(me.attrs, max_entries,
                  lookup_words(me, IF words = <<>> THEN me.attrs.vocabulary_[1] ELSE words[1]))

\* DocVectorizer.to_DataFrame from the row selection on: the guard, then the table.
doc_frame(a, max_entries, documents, submatrix) ==
  IF Len(submatrix.rows) * Len(submatrix.cols) > max_entries THEN over_capacity
  ELSE IF a.column_dictionary_ = <<>> THEN Raise("AttributeError")
  ELSE IF \E x \in 0..(Len(submatrix.cols) - 1) : x \notin DOMAIN a.column_dictionary_[1]
       THEN Raise("KeyError")
  ELSE Return(Value("DataFrame", <<>>, submatrix, documents,
                    Labels(a.column_dictionary_[1], Len(submatrix.cols))))

\* submatrix = self.representation_[documents, :]
doc_rows(a, max_entries, documents) ==
  IF \E k \in 1..Len(documents) : documents[k] >= Len(a.representation_[1].rows)
  THEN Raise("IndexError")
  ELSE doc_frame(a, max_entries, documents, RowsAt(a.representation_[1], documents))

\* DocVectorizer.to_DataFrame(max_entries, documents); documents is <<>> for
\* None and <<list>> for a list of row indices.
DocVectorizer_to_DataFrame(me, max_entries, documents) ==
  IF me.attrs.representation_ = <<>> THEN Raise("AttributeError")
  ELSE doc_rows(me.attrs, max_entries,
                IF documents = <<>>
                THEN [k \in 1..Len(me.attrs.representation_[1].rows) |-> k - 1]
                ELSE documents[1])

\* ------------------------------------------------------------------ the state machine

\* The record of the last call: the method, the instance, its arguments
\* (X, or the optional list and max_entries), the exception raised ("" when it
\* returned), the value returned, and the delegate calls it made, in order.
Call(op, i, X, given, list, max_entries, exc, value, trace) ==
  [op |-> op, self |-> i, X |-> X, given |-> given, list |-> list,
   max_entries |-> max_entries, exc |-> exc, value |-> value, trace |-> trace]

NoCall == Call("none", "", <<>>, FALSE, <<>>, 0, "", NoValue, <<>>)

\* The objects that exist before any fit: the caller's delegates, the caller's
\* delegates that test false, and the default arguments of JointVectorizer.
Prebuilt(slot, truthy) ==
  CASE slot = "tokenizer" -> Obj("tokenizer", "document", truthy)
    [] slot = "token_contractor" -> Obj("contractor", "", truthy)
    [] slot = "vectorizer" -> Obj("docvec", "", truthy)
    [] slot = "info_weight_transformer" -> Obj("iwt", "", truthy)
    [] slot = "remove_effects_transformer" -> Obj("ret", "", truthy)

\* The heap of a program that builds no delegate itself: room for the objects
\* the fits of its instances build.
InitHeap == [r \in Insts \X Slots |-> NoObj]

\* The heap of a program that built delegates of its own before constructing
\* its vectorizers, and has the default arguments of JointVectorizer on it.
ShareHeap ==
  [r \in Refs |-> IF r[1] \in Insts THEN NoObj ELSE Prebuilt(r[2], r[1] # "falsy")]

\* The configurations of a WordVectorizer: every choice of stages and switches
\* around a vectorizer, and every choice of the stages before a vectorizer of None.
WordConfigs ==
  {WordVectorizer_init(t, c, SelName("flat"), n, d) :
     t \in {SelNone, SelName("nltk")}, c \in {SelNone, SelName("conservative")},
     n \in BOOLEAN, d \in BOOLEAN}
  \cup
  {WordVectorizer_init(t, c, SelNone, TRUE, TRUE) :
     t \in {SelNone, SelName("nltk")}, c \in {SelNone, SelName("conservative")}}

\* The configurations of a DocVectorizer, likewise.
DocConfigs ==
  {DocVectorizer_init(t, c, SelName("bow"), w, r, n) :
     t \in {SelNone, SelName("nltk")}, c \in {SelNone, SelName("conservative")},
     w \in {SelNone, SelName("default")}, r \in {SelNone, SelName("default")}, n \in BOOLEAN}
  \cup
  {DocVectorizer_init(t, c, SelNone, SelName("default"), SelName("default"), TRUE) :
     t \in {SelNone, SelName("nltk")}, c \in {SelNone, SelName("conservative")}}

\* One vectorizer, of either class, under any of the configurations.
Init ==
  /\ inst \in {[i \in Insts |-> IF i = "v1" THEN c ELSE Absent] : c \in WordConfigs \cup DocConfigs}
  /\ heap = InitHeap
  /\ last = NoCall

\* The state after a method of instance i ran to the frame f.
Ran(i, f, record) ==
  /\ inst' = [inst EXCEPT ![i] = f.self]
  /\ heap' = f.heap
  /\ last' = record

\* The value a method that ended in frame f returns, when it returns data.
Data(f) == IF f.exc = "" THEN Value("matrix", <<>>, f.data, <<>>, <<>>) ELSE NoValue

\* return self
Self(f) == IF f.exc = "" THEN Value("self", <<>>, NoData, <<>>, <<>>) ELSE NoValue

\* return self.representation_
Representation(f) ==
  IF f.exc = "" THEN Value("matrix", <<>>, f.self.attrs.representation_[1], <<>>, <<>>)
  ELSE NoValue

\* fit ran to the frame f and returned self, or raised.
FitRan(i, X, f) == Ran(i, f, Call("fit", i, X, FALSE, <<>>, 0, f.exc, Self(f), f.trace))

\* fit_transform ran fit to the frame f and returned self.representation_.
FitTransformRan(i, X, f) ==
  Ran(i, f, Call("fit_transform", i, X, FALSE, <<>>, 0, f.exc, Representation(f), f.trace))

\* transform ran to the frame f and returned its local representation.
TransformRan(i, X, f) ==
  Ran(i, f, Call("transform", i, X, FALSE, <<>>, 0, f.exc, Data(f), f.trace))

\* A method that binds nothing answered r; list is <<>> for None, <<l>> for l.
Answered(op, i, list, max_entries, r) ==
  /\ last' = Call(op, i, <<>>, list # <<>>, IF list = <<>> THEN <<>> ELSE list[1],
                  max_entries, r.exc, r.value, <<>>)
  /\ UNCHANGED <<inst, heap>>

WordFit(i) ==
  /\ inst[i].cls = "Word"
  /\ \E X \in Corpora : \E order \in DedupeOrders(i, inst[i], heap, X) :
       \E f \in {WordVectorizer_fit(i, inst[i], heap, X, order)} : FitRan(i, X, f)

WordFitTransform(i) ==
  /\ inst[i].cls = "Word"
  /\ \E X \in Corpora : \E order \in DedupeOrders(i, inst[i], heap, X) :
       \E f \in {WordVectorizer_fit(i, inst[i], heap, X, order)} : FitTransformRan(i, X, f)

\* The lists a caller looks up: the short lists of words, and the instance's
\* own vocabulary_ once fit has bound it.
Lookups(me) ==
  WordLists \cup (IF me.attrs.vocabulary_ = <<>> THEN {} ELSE {me.attrs.vocabulary_[1]})

LookupWords(i) ==
  /\ inst[i].cls = "Word"
  /\ \E words \in Lookups(inst[i]) : \E r \in {lookup_words(inst[i], words)} :
       Answered("lookup_words", i, <<words>>, 0, r)

WordToDataFrame(i) ==
  /\ inst[i].cls = "Word"
  /\ \E max_entries \in Budgets : \E words \in {<<>>} \cup {<<w>> : w \in WordSelections} :
       \E r \in {WordVectorizer_to_DataFrame(inst[i], max_entries, words)} :
         Answered("to_DataFrame", i, words, max_entries, r)

DocFit(i) ==
  /\ inst[i].cls = "Doc"
  /\ \E X \in Corpora : \E f \in {DocVectorizer_fit(i, inst[i], heap, X)} : FitRan(i, X, f)

DocFitTransform(i) ==
  /\ inst[i].cls = "Doc"
  /\ \E X \in Corpora : \E f \in {DocVectorizer_fit(i, inst[i], heap, X)} :
       FitTransformRan(i, X, f)

DocTransform(i) ==
  /\ inst[i].cls = "Doc"
  /\ \E X \in NewCorpora : \E f \in {DocVectorizer_transform(inst[i], heap, X)} :
       TransformRan(i, X, f)

DocToDataFrame(i) ==
  /\ inst[i].cls = "Doc"
  /\ \E max_entries \in Budgets : \E documents \in {<<>>} \cup {<<d>> : d \in RowLists} :
       \E r \in {DocVectorizer_to_DataFrame(inst[i], max_entries, documents)} :
         Answered("to_DataFrame", i, documents, max_entries, r)

Next ==
  \E i \in Insts :
    \/ WordFit(i)
    \/ WordFitTransform(i)
    \/ LookupWords(i)
    \/ WordToDataFrame(i)
    \/ DocFit(i)
    \/ DocFitTransform(i)
    \/ DocTransform(i)
    \/ DocToDataFrame(i)

Spec == Init /\ [][Next]_vars

\* ------------------------------------------------------------------ claims

\* The instance the last call was made on.
Me == inst[last.self]

Fits == {"fit", "fit_transform"}

\* The last call was a fit (or fit_transform) of a vectorizer of class cls.
FitOf(cls) == last.op \in Fits /\ Me.cls = cls

\* The instance holds everything a completed fit binds.
IsFitted(me) ==
  /\ me.attrs.representation_ # <<>>
  /\ me.attrs.vocabulary_ # <<>>
  /\ me.attrs.column_dictionary_ # <<>>

\* The last call was to_DataFrame on a fitted instance with a selection that
\* exists: it got as far as the capacity guard.
Exported ==
  /\ last.op = "to_DataFrame"
  /\ IsFitted(Me)
  /\ Me.cls = "Doc" =>
       \A k \in 1..Len(last.list) : last.list[k] < Len(Me.attrs.representation_[1].rows)

\* rows x cols of the submatrix the last to_DataFrame selected.
SelectedSize ==
  LET cols == Len(Me.attrs.representation_[1].cols)
      all == IF Me.cls = "Doc" THEN Len(Me.attrs.representation_[1].rows)
             ELSE Len(Me.attrs.vocabulary_[1])
      some == IF Me.cls = "Doc" THEN Len(last.list)
              ELSE Len(SelectSeq(last.list, LAMBDA w : w \in Range(Me.attrs.vocabulary_[1])))
  IN  (IF last.given THEN some ELSE all) * cols

\* C1: to_DataFrame (of either class) raises when rows x cols of the selected
\* submatrix exceeds max_entries, and returns the dense table otherwise.
C1_CapacityRaised ==
  Exported =>
    IF SelectedSize > last.max_entries
    THEN last.exc # ""
    ELSE last.exc = "" /\ last.value.kind = "DataFrame"

\* C2: DocVectorizer.transform on an instance no fit has bound anything on
\* raises NotFittedError, with no delegate invoked.
C2_TransformNotFitted ==
  (last.op = "transform" /\ Me.attrs = NoAttrs) =>
    (last.exc = "NotFittedError" /\ last.trace = <<>> /\ heap = InitHeap)

\* C2's case: transform was called before any fit.
C2_Witness ==
  /\ last.op = "transform"
  /\ Me.cls = "Doc"
  /\ Me.attrs = NoAttrs
  /\ last.exc = "NotFittedError"

\* C3: WordVectorizer.lookup_words on an instance no fit has bound anything
\* on raises NotFittedError.
C3_LookupNotFitted ==
  (last.op = "lookup_words" /\ Me.attrs = NoAttrs) => last.exc = "NotFittedError"

\* The label of the delegate call each slot makes.
StageOf ==
  [tokenizer |-> "tokenize", token_contractor |-> "contract", vectorizer |-> "vectorize",
   info_weight_transformer |-> "info_weight", remove_effects_transformer |-> "remove_effects"]

\* The stages the last call invoked, in order.
Stages == [k \in 1..Len(last.trace) |-> last.trace[k].stage]

\* Every call of the last method was made on what the call before it gave
\* back, the first on the corpus handed in: nothing in between changed the data.
Threaded ==
  \A k \in 1..Len(last.trace) :
    last.trace[k].input = IF k = 1 THEN Corpus(last.X) ELSE last.trace[k - 1].output

\* No delegate was invoked for a slot whose selector is None.
NoneNeverInvoked ==
  \A slot \in Slots : Me[slot].kind = "none" => StageOf[slot] \notin Range(Stages)

\* C4 as stated: in fit, a slot resolved to None (the vectorizer included) is
\* skipped: no delegate call, no error, the data handed on unchanged.
C4_NoneSkipped ==
  (last.op \in Fits /\ \E slot \in Slots : Me[slot].kind = "none") =>
    (NoneNeverInvoked /\ Threaded /\ last.exc = "")

\* C4 amended: in fit, a tokenizer, contractor, info-weighter or effect-remover
\* resolved to None is skipped (no delegate call, the data handed on unchanged),
\* and fit completes; a vectorizer resolved to None is not skipped: fit raises
\* AttributeError at the vectorize step, with no vectorizer invoked.
C4_NoneSkippedButVectorizer ==
  last.op \in Fits =>
    /\ NoneNeverInvoked
    /\ Threaded
    /\ Me.vectorizer.kind # "none" => last.exc = ""
    /\ Me.vectorizer.kind = "none" =>
         (last.exc = "AttributeError" /\ Me.attrs.representation_ = <<>>)

\* C4's case: a fit with tokenizer and contractor resolved to None that went
\* on to vectorize the corpus as handed in.
C4_Witness ==
  /\ last.op \in Fits
  /\ Me.tokenizer.kind = "none"
  /\ Me.token_contractor.kind = "none"
  /\ Me.info_weight_transformer.kind = "none"
  /\ last.exc = ""
  /\ Stages # <<>>
  /\ last.trace[1].stage = "vectorize"
  /\ last.trace[1].input = Corpus(last.X)

\* Only the vectorizer stage is on: every other stage None, no normalization,
\* no deduplication.
VectorizerOnly(me) ==
  /\ me.tokenizer.kind = "none"
  /\ me.token_contractor.kind = "none"
  /\ me.info_weight_transformer.kind = "none"
  /\ me.remove_effects_transformer.kind = "none"
  /\ me.vectorizer.kind = "name"
  /\ ~me.normalize
  /\ ~me.dedupe

\* The object the vectorizer selector of me names, as its registry builds it.
NamedVectorizer(me) ==
  IF me.cls = "Word" THEN MULTITOKEN_COOCCURRENCE_VECTORIZERS[me.vectorizer.name]
  ELSE DOCUMENT_VECTORIZERS[me.vectorizer.name]

\* C5: with only the vectorizer stage on, fit_transform returns exactly what
\* the vectorizer's fit_transform gives on the corpus handed in.
C5_VectorizedOnly ==
  (last.op = "fit_transform" /\ VectorizerOnly(Me)) =>
    /\ last.exc = ""
    /\ last.value.kind = "matrix"
    /\ last.value.data = FitTransform(NamedVectorizer(Me), Corpus(last.X)).out

\* C5's case: such a fit_transform returned a matrix with counts in it.
C5_Witness ==
  /\ last.op = "fit_transform"
  /\ VectorizerOnly(Me)
  /\ last.value.kind = "matrix"
  /\ last.value.data.rows # <<>>
  /\ last.value.data.ops = <<>>

\* A vectorizer configured as me, freshly constructed.
Fresh(me) == [me EXCEPT !.attrs = NoAttrs]

\* The representation_ values a fresh WordVectorizer configured as me may end
\* with after fit(X): one for each order the deduplication may come out in.
Refits(me, X) ==
  {WordVectorizer_fit(last.self, Fresh(me), InitHeap, X, order).self.attrs.representation_ :
     order \in DedupeOrders(last.self, Fresh(me), InitHeap, X)}

\* The last call was a completed fit of a deduplicating WordVectorizer on a
\* corpus in which a document, and so each of its sentences, is repeated.
FitWithRepeats ==
  /\ FitOf("Word")
  /\ Me.dedupe
  /\ last.exc = ""
  /\ RemoveRepeats(last.X) # last.X

\* C6: a deduplicating WordVectorizer fitted on a corpus with repeated
\* sentences ends with the same representation_ as one fitted on the corpus
\* with the repeats removed, whatever the tokenizer and contractor.
C6_DedupeRepeats ==
  FitWithRepeats => Refits(Me, RemoveRepeats(last.X)) = {Me.attrs.representation_}

\* The last call was lookup_words on a fitted WordVectorizer.
LookedUp == last.op = "lookup_words" /\ IsFitted(Me)

\* The words of the list looked up that are in the vocabulary, in the list's
\* order, repeats kept.
Survivors == SelectSeq(last.list, LAMBDA w : w \in Range(Me.attrs.vocabulary_[1]))

\* C7: after fit, lookup_words(words) returns the words that are in
\* vocabulary_, in input order with repeats kept, and for each the row of
\* representation_ at its token_dictonary_ index; for words disjoint from the
\* vocabulary it returns an empty list and a zero-row slice, without raising.
C7_LookupSurvivors ==
  LookedUp =>
    /\ last.exc = ""
    /\ last.value.words = Survivors
    /\ Len(last.value.data.rows) = Len(Survivors)
    /\ \A k \in 1..Len(Survivors) :
         last.value.data.rows[k] =
           Me.attrs.representation_[1].rows[Me.attrs.token_dictonary_[1][Survivors[k]] + 1]
    /\ Range(last.list) \cap Range(Me.attrs.vocabulary_[1]) = {} =>
         (last.value.words = <<>> /\ last.value.data.rows = <<>>)

\* C7's case: a lookup of two words, one in the vocabulary and one not.
C7_Witness ==
  /\ LookedUp
  /\ Len(last.list) = 2
  /\ Len(last.value.words) = 1
  /\ Len(last.value.data.rows) = 1

WordOrder == <<"tokenize", "contract", "dedupe", "vectorize", "normalize">>

DocOrder ==
  <<"tokenize", "contract", "vectorize", "info_weight", "pre_normalize", "remove_effects",
    "normalize">>

\* The configuration of me turns the stage on.
Active(me, stage) ==
  CASE stage = "tokenize" -> me.tokenizer.kind # "none"
    [] stage = "contract" -> me.token_contractor.kind # "none"
    [] stage = "dedupe" -> me.dedupe
    [] stage = "vectorize" -> me.vectorizer.kind # "none"
    [] stage = "info_weight" -> me.info_weight_transformer.kind # "none"
    [] stage \in {"pre_normalize", "remove_effects"} -> me.remove_effects_transformer.kind # "none"
    [] stage = "normalize" -> me.normalize

\* The stages a fit of me is to run: the active ones, in the fixed order.
Plan(me) ==
  SelectSeq(IF me.cls = "Word" THEN WordOrder ELSE DocOrder, LAMBDA s : Active(me, s))

IsPrefix(s, t) == Len(s) <= Len(t) /\ SubSeq(t, 1, Len(s)) = s

\* C10: a fit invokes the active stages in the fixed order, each once (a fit
\* that raises got through a prefix of them), each on the output of the one
\* before.
C10_FixedOrder ==
  last.op \in Fits =>
    /\ Threaded
    /\ IF last.exc = "" THEN Stages = Plan(Me) ELSE IsPrefix(Stages, Plan(Me))

\* C10's case: a DocVectorizer fit with every stage on ran to its end.
C10_Witness ==
  /\ FitOf("Doc")
  /\ last.exc = ""
  /\ Stages = DocOrder
  /\ Threaded

\* ------------------------------------------------------------------ two instances

\* A delegate object the caller built and hands to constructors.
UserObj(slot) == SelObj(<<"user", slot>>)

\* The configurations of the two-instance runs: a DocVectorizer that names its
\* stages, one handed the caller's objects, a WordVectorizer handed the
\* caller's contractor, a JointVectorizer with every argument left at its
\* default, and one handed the caller's objects.
ShareConfigs ==
  {DocVectorizer_init(SelName("nltk"), SelNone, SelName("bow"), SelName("default"), SelNone, FALSE),
   DocVectorizer_init(UserObj("tokenizer"), UserObj("token_contractor"), UserObj("vectorizer"),
                      UserObj("info_weight_transformer"), UserObj("remove_effects_transformer"),
                      TRUE),
   WordVectorizer_init(SelName("nltk"), UserObj("token_contractor"), SelName("flat"), TRUE, TRUE),
   JointVectorizer_init(JointDefault("tokenizer"), JointDefault("token_contractor"),
                        JointDefault("vectorizer"), JointDefault("info_weight_transformer"),
                        JointDefault("remove_effects_transformer"), TRUE),
   JointVectorizer_init(UserObj("tokenizer"), UserObj("token_contractor"), UserObj("vectorizer"),
                        UserObj("info_weight_transformer"), UserObj("remove_effects_transformer"),
                        TRUE)}

\* Two vectorizers constructed one after the other in the same program.
InitShare ==
  /\ inst \in [Insts -> ShareConfigs]
  /\ heap = ShareHeap
  /\ last = NoCall

\* The methods that run the stages, on either instance.
NextShare ==
  \E i \in Insts :
    \/ WordFit(i)
    \/ DocFit(i)
    \/ DocTransform(i)

SpecShare == InitShare /\ [][NextShare]_vars

\* The stage objects an instance holds: the objects its constructor was handed
\* and stored, and the objects its "_" attributes are bound to.
Held(me) ==
  {me[slot].ref : slot \in {sl \in Slots : me[sl].kind = "obj"}}
  \cup {me.attrs[AttrOf[slot]][1].ref :
          slot \in {sl \in Slots : me.attrs[AttrOf[sl]] # <<>> /\ ~me.attrs[AttrOf[sl]][1].isNone}}

\* C9: no stage object held by one vectorizer instance is held by another.
C9_StagesNotShared ==
  \A i, j \in Insts : i # j => Held(inst[i]) \cap Held(inst[j]) = {}

\* What C9 concludes from it: a fit of one instance changes no stage object
\* that another instance holds.
FitLeavesOthersStages ==
  [][\A j \in Insts :
       (last'.op \in Fits /\ last'.self # j) => \A r \in Held(inst[j]) : heap'[r] = heap[r]]_vars

\* ------------------------------------------------------------------ normalization

\* The last call was a fit, fit_transform or transform of a DocVectorizer that
\* ran to its end.
DocRan ==
  /\ last.op \in Fits \cup {"transform"}
  /\ Me.cls = "Doc"
  /\ last.exc = ""

\* The k-th call of the last method was an L1 row normalization of its input.
IsL1(k) ==
  /\ last.trace[k].method = "normalize"
  /\ last.trace[k].output = normalize(last.trace[k].input)

\* C11: in DocVectorizer.fit and transform the rows are L1-normalized right
\* before the remove-effects stage exactly when that stage is on, whatever
\* normalize is; and L1-normalized at the end exactly when normalize is true,
\* whatever stages are on.
C11_NormalizeGates ==
  DocRan =>
    /\ "remove_effects" \in Range(Stages) <=> Me.remove_effects_transformer.kind # "none"
    /\ \A k \in 1..Len(Stages) :
         Stages[k] = "remove_effects" => (k > 1 /\ Stages[k - 1] = "pre_normalize" /\ IsL1(k - 1))
    /\ \A k \in 1..Len(Stages) :
         Stages[k] = "pre_normalize" => (k < Len(Stages) /\ Stages[k + 1] = "remove_effects")
    /\ "normalize" \in Range(Stages) <=> Me.normalize
    /\ \A k \in 1..Len(Stages) :
         Stages[k] = "normalize" => (k = Len(Stages) /\ IsL1(k))

\* C11's case: a transform with the remove-effects stage on and normalize off
\* normalized before that stage and not at the end.
C11_Witness ==
  /\ DocRan
  /\ last.op = "transform"
  /\ ~Me.normalize
  /\ "pre_normalize" \in Range(Stages)
  /\ "normalize" \notin Range(Stages)

\* ------------------------------------------------------------------ transform and the fitted state

\* The stages of transform that come after the tokenizer.
Replayed == {"contract", "vectorize", "info_weight", "remove_effects"}

\* C12: a transform enters the contractor, vectorizer, info-weighter and
\* effect-remover through transform only, leaves these objects as the fit left
\* them, and leaves every attribute of the instance (representation_,
\* column_dictionary_, vocabulary_, the stage bindings) as it was; the
\* tokenizer alone is entered through fit_transform.
C12_TransformKeepsFit ==
  [][last'.op = "transform" =>
       /\ inst' = inst
       /\ \A r \in DOMAIN heap : r[2] # "tokenizer" => heap'[r] = heap[r]
       /\ \A k \in 1..Len(last'.trace) :
            /\ last'.trace[k].stage \in Replayed => last'.trace[k].method = "transform"
            /\ last'.trace[k].stage = "tokenize" => last'.trace[k].method = "fit_transform"]_vars

\* C12's case: a transform of new documents went through every stage of a
\* fitted DocVectorizer.
C12_Witness ==
  /\ last.op = "transform"
  /\ last.exc = ""
  /\ Replayed \subseteq Range(Stages)
  /\ heap[<<last.self, "tokenizer">>].fitted # <<>>
  /\ Me.attrs.representation_ # <<>>
  /\ Len(Me.attrs.representation_[1].rows) = MaxCorpus
  /\ Len(last.X) < MaxCorpus

\* ------------------------------------------------------------------ configurations at the edges

\* A delegate object of the caller's that is not None and tests false.
FalsyObj(slot) == SelObj(<<"falsy", slot>>)

\* Configurations at the edges of what the constructors accept: a delegate that
\* tests false, no tokenizer (the caller tokenizes), a name no registry has,
\* no vectorizer; and a plain one of each class.
EdgeConfigs ==
  {DocVectorizer_init(SelName("nltk"), SelNone, SelName("bow"),
                      FalsyObj("info_weight_transformer"), SelNone, n) : n \in BOOLEAN}
  \cup
  {DocVectorizer_init(SelName("nltk"), SelName("conservative"), SelName("bow"), SelNone,
                      FalsyObj("remove_effects_transformer"), FALSE),
   DocVectorizer_init(SelNone, SelNone, SelName("bow"), SelNone, SelNone, FALSE),
   DocVectorizer_init(SelName("nltk"), SelName("bogus"), SelName("bow"), SelName("default"),
                      SelName("default"), TRUE),
   DocVectorizer_init(SelName("nltk"), SelNone, SelNone, SelNone, SelNone, FALSE),
   DocVectorizer_init(SelName("nltk"), SelName("conservative"), SelName("bow"),
                      SelName("default"), SelName("default"), TRUE),
   WordVectorizer_init(SelName("nltk"), SelName("conservative"), SelName("bogus"), TRUE, TRUE),
   WordVectorizer_init(SelName("nltk"), SelNone, SelName("flat"), FALSE, FALSE)}

\* One vectorizer under one of these configurations, in a program that has the
\* caller's delegates on its heap.
InitEdge ==
  /\ inst \in {[i \in Insts |-> IF i = "v1" THEN c ELSE Absent] : c \in EdgeConfigs}
  /\ heap = ShareHeap
  /\ last = NoCall

SpecEdge == InitEdge /\ [][Next]_vars

\* ------------------------------------------------------------------ fit against transform

\* The stages a configuration can turn off.
Gated == {"tokenize", "contract", "info_weight", "remove_effects"}

\* The frame fit(X) of a vectorizer configured as the last call's ends in.
FitAgain(X) == DocVectorizer_fit(last.self, Fresh(Me), heap, X)

\* The stages the calls of a frame went through.
StagesIn(f) == {f.trace[k].stage : k \in 1..Len(f.trace)}

\* The last call was a transform on a DocVectorizer whose fit ran to its end.
TransformedFitted ==
  /\ last.op = "transform"
  /\ Me.cls = "Doc"
  /\ IsFitted(Me)

\* C13: on a DocVectorizer whose fit succeeded, transform succeeds, applies
\* the tokenizer, contractor, info-weighter and effect-remover exactly when fit
\* applied them, and on the corpus the instance was fitted on returns the
\* fitted representation_.
C13_SameGates ==
  TransformedFitted =>
    /\ last.exc = ""
    /\ Range(Stages) \cap Gated = StagesIn(FitAgain(last.X)) \cap Gated
    /\ FitAgain(last.X).self.attrs.representation_ = Me.attrs.representation_ =>
         last.value.data = Me.attrs.representation_[1]

\* ------------------------------------------------------------------ a fit that fails

\* The attributes a completed fit binds on an instance of class cls.
FitBinds(cls) ==
  {"tokenizer_", "token_contractor_", "vectorizer_", "representation_", "column_dictionary_",
   "inverse_column_dictionary_", "vocabulary_"}
  \cup (IF cls = "Doc" THEN {"info_weight_transformer_", "remove_effects_transformer_"}
        ELSE {"token_dictonary_", "inverse_token_dictionary_"})

\* C14: whatever fits were called on an instance and however they ended, the
\* instance is never partially initialized: tokenizer_ is bound only together
\* with everything else a fit binds.
C14_NoPartialFit ==
  \A i \in Insts :
    inst[i].attrs.tokenizer_ # <<>> => \A a \in FitBinds(inst[i].cls) : inst[i].attrs[a] # <<>>

\* What C14 rules out with it: a transform getting past its fitted check on an
\* instance whose fit did not run to its end.
TransformChecksFit ==
  (last.op = "transform" /\ ~IsFitted(Me)) => last.exc = "NotFittedError"


====
